---- MODULE Spec2Model ----
(***************************************************************************)
(* OmniParse: the model loader with its process-wide holder                *)
(* (src/omniparse/__init__.py) and the HTTP API test client with its test  *)
(* runner and command line (src/tutorial_poc.py).                          *)
(*                                                                         *)
(* Both programs are single-threaded and synchronous, so every call is one *)
(* atomic action.  What a call did (the steps it ran, the requests it      *)
(* sent, what it returned or raised) is kept in a record of the last call, *)
(* together with the inputs and the environment's answers it was given.    *)
(***************************************************************************)
EXTENDS Naturals, Sequences, FiniteSets, TLC

VARIABLES
    shared_state,   \* the module-level SharedState instance
    ncalls,         \* number of load_omnimodel calls made so far
    call,           \* the last loader call: inputs, steps run, outcome
    last            \* the last client-script call: inputs, requests, outcome

loaderVars == <<shared_state, ncalls, call>>
clientVars == <<last>>
vars == <<shared_state, ncalls, call, last>>

\* Bound on the number of load_omnimodel calls in one behaviour.
MaxCalls == 2

(***************************************************************************)
(* Part 1.  src/omniparse/__init__.py                                      *)
(***************************************************************************)

\* Python's None: a value that is no string (a string is a sequence of
\* one-character strings, the empty string the empty sequence) and no
\* loaded object.  Every loaded object is a pair <<kind, n>>: what was
\* loaded, and the number of the load_omnimodel call that created it.
None == <<"None">>

Obj(kind, n) == <<kind, n>>

\* class SharedState(BaseModel): five fields, each defaulting to None.
SharedState ==
    [model_list |-> None, vision_model |-> None, vision_processor |-> None,
     whisper_model |-> None, crawler |-> None]

Fields == {"model_list", "vision_model", "vision_processor", "whisper_model", "crawler"}

\* The five external loads of load_omnimodel, in source order.
Loads == {"load_all_models", "vision_model", "vision_processor", "whisper_model", "crawler"}

\* The two resets of the except branch (lines 62 and 63).
Resets == {"reset_model", "reset_processor"}

\* The statements of load_omnimodel that can raise, in source order: the
\* text art (line 44), the device (45), and in the three branches the log
\* prints (47, 49, 58, 60, 61, 66, 70), the loads (48, 52, 55, 67, 71) and
\* the resets (62, 63).
Statements ==
    <<"text_art", "device",
      "print_ocr", "load_all_models", "print_vision",
      "vision_model", "vision_processor", "print_loaded",
      "print_warning", "print_disabled", "reset_model", "reset_processor",
      "print_audio", "whisper_model",
      "print_web", "crawler">>

StatementSet == {Statements[i] : i \in 1..Len(Statements)}

\* What a load statement does when it runs: the load returns an object,
\* which is assigned to the field ("ok"); the load raises an instance of
\* Exception, or a BaseException that is no Exception (KeyboardInterrupt
\* during a download, SystemExit from the code that trust_remote_code
\* runs), and nothing is assigned; or the load returns, the assignment
\* (the holder's __setattr__, which runs Python code) stores the object
\* and a KeyboardInterrupt is delivered before the statement ends
\* ("Interrupted").
LoadOutcomes == {"ok", "Exception", "BaseException", "Interrupted"}

\* What a reset does: it stores None; a KeyboardInterrupt is delivered
\* before __setattr__ stores it ("BaseException"); or one is delivered
\* after it stored it ("Interrupted").
ResetOutcomes == {"ok", "BaseException", "Interrupted"}

\* What any other statement (a print, the text art, the device) does: it
\* completes; it raises an instance of Exception (what writing to stdout
\* raises: BrokenPipeError or BlockingIOError for a pipe, ValueError for a
\* closed file, UnicodeEncodeError for a stdout that cannot encode the
\* line; or what str(e) raises); or it raises a BaseException that is no
\* Exception (KeyboardInterrupt delivered while the statement runs).
PrintOutcomes == {"ok", "Exception", "BaseException"}

StatementOutcomes(stmt) ==
    IF stmt \in Loads THEN LoadOutcomes
    ELSE IF stmt \in Resets THEN ResetOutcomes
    ELSE PrintOutcomes

\* Every statement completes.
AllOk == [x \in StatementSet |-> "ok"]

\* No exception is propagating.
NoExc == "none"

\* The frame of a running load_omnimodel call: the holder; the exception
\* propagating out of the function (the statement that raised it, and its
\* class); the statements run so far (asked) and the loads among them
\* (steps); whether an exception raised in the try block is on its way to
\* the except clause (caught); whether the except branch was entered
\* (handled) and whether it printed its warning (warned).
Frame(s) ==
    [st |-> s, exc |-> NoExc, exc_class |-> NoExc, asked |-> << >>,
     steps |-> << >>, caught |-> FALSE, handled |-> FALSE, warned |-> FALSE]

\* A frame that the exception of class cls, raised by stmt, is leaving.
Propagate(f, stmt, cls) == [f EXCEPT !.exc = stmt, !.exc_class = cls]

\* The holder field a load is assigned to.
FieldOf(load) == IF load = "load_all_models" THEN "model_list" ELSE load

\* The frame in which stmt has started.
Attempt(f, stmt) ==
    [f EXCEPT !.asked = Append(@, stmt),
              !.steps = IF stmt \in Loads THEN Append(@, stmt) ELSE @]

\* The frame in which stmt has done its work: a load is assigned to its
\* field, a reset assigns None to its field.
Complete(f, stmt, n) ==
    IF stmt \in Loads
    THEN [f EXCEPT !.st[FieldOf(stmt)] = Obj(FieldOf(stmt), n)]
    ELSE IF stmt = "reset_model" THEN [f EXCEPT !.st.vision_model = None]
    ELSE IF stmt = "reset_processor" THEN [f EXCEPT !.st.vision_processor = None]
    ELSE f

\* The frame a KeyboardInterrupt leaves after stmt stored its value.
Interrupt(f, stmt, n) ==
    Propagate(Complete(Attempt(f, stmt), stmt, n), stmt, "BaseException")

\* One statement outside the try block: whatever it raises leaves the
\* function; nothing runs while an exception is propagating.
Statement(f, stmt, out, n) ==
    IF f.exc # NoExc THEN f
    ELSE IF out[stmt] = "Interrupted" THEN Interrupt(f, stmt, n)
    ELSE IF out[stmt] # "ok" THEN Propagate(Attempt(f, stmt), stmt, out[stmt])
    ELSE Complete(Attempt(f, stmt), stmt, n)

\* One statement of the try block: `except Exception` takes an Exception
\* to the except branch, the rest of the block being skipped; any other
\* BaseException leaves the function.
TryStatement(f, stmt, out, n) ==
    IF f.exc # NoExc \/ f.caught THEN f
    ELSE IF out[stmt] = "Exception" THEN [Attempt(f, stmt) EXCEPT !.caught = TRUE]
    ELSE IF out[stmt] = "Interrupted" THEN Interrupt(f, stmt, n)
    ELSE IF out[stmt] # "ok" THEN Propagate(Attempt(f, stmt), stmt, out[stmt])
    ELSE Complete(Attempt(f, stmt), stmt, n)

\* The try block (lines 51-58): the model is assigned before the processor
\* is loaded, and the success line is printed inside the block.
VisionTry(f, out, n) ==
    TryStatement(
        TryStatement(
            TryStatement(f, "vision_model", out, n),
            "vision_processor", out, n),
        "print_loaded", out, n)

\* The except branch (lines 59-63): two prints, the first with str(e),
\* then the two resets, one after the other.  A statement that raises
\* leaves the branch with that exception before the statements after it.
VisionExcept(f, out, n) ==
    IF f.exc # NoExc \/ ~f.caught THEN f
    ELSE LET g == Statement(
                      Statement([f EXCEPT !.caught = FALSE, !.handled = TRUE],
                                "print_warning", out, n),
                      "print_disabled", out, n)
         IN  IF g.exc # NoExc THEN g
             ELSE Statement(
                      Statement([g EXCEPT !.warned = TRUE], "reset_model", out, n),
                      "reset_processor", out, n)

\* if load_documents: the OCR models (uncaught), then the vision try block
\* with its except branch.
DocumentsBranch(f, load_documents, out, n) ==
    IF f.exc # NoExc \/ ~load_documents THEN f
    ELSE VisionExcept(
             VisionTry(
                 Statement(
                     Statement(
                         Statement(f, "print_ocr", out, n),
                         "load_all_models", out, n),
                     "print_vision", out, n),
                 out, n),
             out, n)

\* A media branch that swallows the failure of the speech load.
MediaBranchSwallows(f, load_media, out, n) ==
    IF f.exc # NoExc \/ ~load_media THEN f
    ELSE LET f1 == Statement(f, "print_audio", out, n)
         IN  IF f1.exc # NoExc THEN f1
             ELSE IF out["whisper_model"] # "ok" THEN Attempt(f1, "whisper_model")
             ELSE Statement(f1, "whisper_model", out, n)

\* if load_media: the speech model, not inside any try block.
MediaBranch(f, load_media, out, n) ==
    IF f.exc # NoExc \/ ~load_media THEN f
    ELSE Statement(Statement(f, "print_audio", out, n), "whisper_model", out, n)

\* A web branch that loads the crawler whatever load_web is.
WebBranchIgnoresFlag(f, load_web, out, n) ==
    IF f.exc # NoExc THEN f
    ELSE Statement(Statement(f, "print_web", out, n), "crawler", out, n)

\* if load_web: the crawler, not inside any try block.
WebBranch(f, load_web, out, n) ==
    IF f.exc # NoExc \/ ~load_web THEN f
    ELSE Statement(Statement(f, "print_web", out, n), "crawler", out, n)

\* The whole function on holder s: the text art and the device, then the
\* three branches in source order.  An exception leaving a statement skips
\* the rest of the function.
load_omnimodel(s, load_documents, load_media, load_web, out, n) ==
    WebBranch(
        MediaBranch(
            DocumentsBranch(
                Statement(Statement(Frame(s), "text_art", out, n), "device", out, n),
                load_documents, out, n),
            load_media, out, n),
        load_web, out, n)

\* The statement numbered k is one a call with these flags runs, the
\* earlier statements doing what out says.  Which statements run depends
\* on the flags and on the outcomes only, never on what the holder holds.
Asked(load_documents, load_media, load_web, out, k) ==
    LET f == load_omnimodel(SharedState, load_documents, load_media, load_web, out, 1)
    IN  \E i \in 1..Len(f.asked) : f.asked[i] = Statements[k]

\* The answers of the environment to one call: an outcome for every
\* statement the call runs, taken in source order from statement k on; a
\* statement the call does not run keeps "ok".
RECURSIVE Answers(_, _, _, _, _)
Answers(load_documents, load_media, load_web, out, k) ==
    IF k > Len(Statements) THEN {out}
    ELSE IF Asked(load_documents, load_media, load_web, out, k)
    THEN UNION {Answers(load_documents, load_media, load_web,
                        [out EXCEPT ![Statements[k]] = c], k + 1) :
                c \in StatementOutcomes(Statements[k])}
    ELSE Answers(load_documents, load_media, load_web, out, k + 1)

\* The answers to a call, by its flags.
AnswersOf ==
    [load_documents \in BOOLEAN, load_media \in BOOLEAN, load_web \in BOOLEAN |->
        Answers(load_documents, load_media, load_web, AllOk, 1)]

LoadOmnimodel ==
    /\ ncalls < MaxCalls
    /\ \E load_documents \in BOOLEAN, load_media \in BOOLEAN, load_web \in BOOLEAN :
       \E out \in AnswersOf[load_documents, load_media, load_web] :
       \E f \in {load_omnimodel(shared_state, load_documents, load_media,
                                load_web, out, ncalls + 1)} :
              /\ shared_state' = f.st
              /\ ncalls' = ncalls + 1
              /\ call' = [op |-> "load_omnimodel",
                          load_documents |-> load_documents,
                          load_media |-> load_media,
                          load_web |-> load_web,
                          out |-> out,
                          before |-> shared_state,
                          n |-> ncalls + 1,
                          asked |-> f.asked,
                          steps |-> f.steps,
                          handled |-> f.handled,
                          warned |-> f.warned,
                          exc |-> f.exc,
                          exc_class |-> f.exc_class]
    /\ UNCHANGED clientVars

\* What an accessor does: it returns a value, or it raises an exception
\* of class cls and returns nothing.
Returns(v) == [raised |-> FALSE, exc_class |-> NoExc, value |-> v]

Raises(cls) == [raised |-> TRUE, exc_class |-> cls, value |-> None]

\* What the start of a function does: the function body runs, or a
\* KeyboardInterrupt is delivered when the call starts.
EntryOutcomes == {"ok", "BaseException"}

\* get_shared_state(): returns the module-level holder s, unless it is
\* interrupted when it starts.
get_shared_state(s, out) ==
    IF out # "ok" THEN Raises(out) ELSE Returns(s)

\* get_active_models(): print(shared_state) (line 79), then the return of
\* the holder (line 82).  A print that raises leaves the function with its
\* exception before the return.
get_active_models(s, out) ==
    IF out # "ok" THEN Raises(out) ELSE Returns(s)

GetSharedState ==
    /\ \E out \in EntryOutcomes :
          call' = [op |-> "get_shared_state", before |-> shared_state,
                   out |-> out, ret |-> get_shared_state(shared_state, out)]
    /\ UNCHANGED <<shared_state, ncalls>>
    /\ UNCHANGED clientVars

GetActiveModels ==
    /\ \E out \in PrintOutcomes :
          call' = [op |-> "get_active_models", before |-> shared_state,
                   out |-> out, ret |-> get_active_models(shared_state, out)]
    /\ UNCHANGED <<shared_state, ncalls>>
    /\ UNCHANGED clientVars

LoaderInit ==
    /\ shared_state = SharedState
    /\ ncalls = 0
    /\ call = [op |-> "import"]

LoaderNext == LoadOmnimodel \/ GetSharedState \/ GetActiveModels

(***************************************************************************)
(* Part 2.  src/tutorial_poc.py : OmniParseAPIClient                       *)
(***************************************************************************)

\* A path or URL is a sequence of one-character strings.

\* What the file system holds at a path at one moment.  A method looks at
\* its path twice, in os.path.exists and then in open, and the path may have
\* changed in between: fstat is what the first look finds, fopen the second.
FileStatus == {"missing", "file", "directory", "unreadable"}

\* os.path.exists(file_path)
exists(fstat) == fstat # "missing"

\* What open(file_path, "rb") raises; "none" if it opens.
OpenError(fopen) ==
    CASE fopen = "directory" -> "IsADirectoryError"
      [] fopen = "unreadable" -> "PermissionError"
      [] fopen = "missing" -> "FileNotFoundError"
      [] OTHER -> "none"

\* Index of the last occurrence of character c in p, 0 if there is none.
rfind(p, c) ==
    LET hits == {i \in 1..Len(p) : p[i] = c}
    IN  IF hits = {} THEN 0 ELSE CHOOSE i \in hits : \A j \in hits : j <= i

\* os.path.basename(file_path): what follows the last "/".
basename(p) == SubSeq(p, rfind(p, "/") + 1, Len(p))

\* A JSON value as Python holds it: a string (a sequence of characters),
\* None, a number, a bool, a list, or a dict.
\* A Python dict with string keys is a function on the set of its keys.
EmptyDict == [k \in {} |-> FALSE]

Put(d, k, v) == [x \in (DOMAIN d) \cup {k} |-> IF x = k THEN v ELSE d[x]]

\* Every value has the same fields; t says which one holds the value.
JValue(t, str_, num, bool, list, dict) ==
    [t |-> t, str |-> str_, num |-> num, bool |-> bool, list |-> list, dict |-> dict]

JStr(v) == JValue("str", v, 0, FALSE, << >>, EmptyDict)

JNull == JValue("null", << >>, 0, FALSE, << >>, EmptyDict)

JNum(v) == JValue("number", << >>, v, FALSE, << >>, EmptyDict)

JBool(v) == JValue("bool", << >>, 0, v, << >>, EmptyDict)

JList(v) == JValue("list", << >>, 0, FALSE, v, EmptyDict)

JObj(v) == JValue("object", << >>, 0, FALSE, << >>, v)

\* bool(x) of a JSON value.
JTruthy(j) ==
    CASE j.t = "null" -> FALSE
      [] j.t = "str" -> j.str # << >>
      [] j.t = "number" -> j.num # 0
      [] j.t = "bool" -> j.bool
      [] j.t = "list" -> j.list # << >>
      [] j.t = "object" -> DOMAIN j.dict # {}

\* Whether len(x) is defined: not for None, a number or a bool.
HasLen(j) == j.t \in {"str", "list", "object"}

\* len(x) of a string, a list or a dict.
JLen(j) ==
    CASE j.t = "str" -> Len(j.str)
      [] j.t = "list" -> Len(j.list)
      [] j.t = "object" -> Cardinality(DOMAIN j.dict)

\* The default of print_response's max_text_length.
MaxTextLength == 500

\* One entry of an "images" list, and one whose image is null.
Image ==
    JObj([filename |-> JStr(<<"a", ".", "p", "n", "g">>),
          image |-> JStr(<<"a", "G", "k", "=">>)])

ImageNull ==
    JObj([filename |-> JStr(<<"a", ".", "p", "n", "g">>), image |-> JNull])

\* The JSON payloads a server sends: objects with none, some or all of the
\* optional fields; the fields empty, null or of another type than the
\* client expects; a text longer than max_text_length (a str, a list, a
\* dict with that many keys); and payloads that are no object.
Payloads ==
    {JObj(EmptyDict),
     JObj([text |-> JStr(<<"h", "e", "l", "l", "o">>), metadata |-> JObj(EmptyDict),
           images |-> JList(<<Image>>)]),
     JObj([text |-> JStr(<< >>)]),
     JObj([text |-> JStr([i \in 1..(MaxTextLength + 1) |-> "x"])]),
     JObj([text |-> JList([i \in 1..(MaxTextLength + 1) |-> JStr(<<"x">>)])]),
     JObj([text |-> JObj([k \in {ToString(i) : i \in 1..(MaxTextLength + 1)} |-> JNull])]),
     JObj([text |-> JNum(5), metadata |-> JNull]),
     JObj([text |-> JNull, images |-> JList(<< >>)]),
     JObj([images |-> JNull]),
     JObj([images |-> JList(<<Image, ImageNull>>)]),
     JList(<< >>),
     JNull}

\* The answers of the network to one request: the request fails in the
\* network layer (a requests.exceptions.RequestException), or a response
\* arrives with a status code and a body.  A body is one of: empty;
\* "json", text that response.json() parses (given by the value it parses
\* to; Python's json also parses NaN and Infinity); "invalid", text it
\* rejects as not JSON; "deep", text nested deeper than the interpreter's
\* recursion limit, closed or not; "bigint", JSON text with an integer of
\* more digits than the interpreter converts (4300).
NetErrors == {"ConnectionError", "Timeout"}

StatusCodes == {200, 500}

NoBody == [kind |-> "empty", payload |-> JNull]

Bodies ==
    {NoBody}
    \cup [kind : {"invalid", "deep", "bigint"}, payload : {JNull}]
    \cup [kind : {"json"}, payload : Payloads]

\* The answer recorded for a request that is never sent.
NoNet == [kind |-> "unsent", exc |-> "none", status_code |-> 0, body |-> NoBody]

Net ==
    [kind : {"error"}, exc : NetErrors, status_code : {0}, body : {NoBody}]
    \cup [kind : {"response"}, exc : {"none"}, status_code : StatusCodes, body : Bodies]

\* What a client method does: it returns a value or raises, having sent
\* the listed requests.
Return(v, reqs) == [raised |-> FALSE, value |-> v, requests |-> reqs]

Raise(e, reqs) == [raised |-> TRUE, exc |-> e, requests |-> reqs]

\* The two result shapes of the client methods.
Success(status_code, data) ==
    [success |-> TRUE, status_code |-> status_code, data |-> data]

Failure(error) == [success |-> FALSE, error |-> error]

\* str(e) of a caught exception.
str(e) == <<"str", e>>

\* OmniParseAPIClient.__init__
OmniParseAPIClient(host, port) ==
    [base_url |-> <<"http://", host, ":", port>>, host |-> host, port |-> port]

\* What response.json() raises on a body, "none" if it returns the parsed
\* value: requests.exceptions.JSONDecodeError for a body that is empty or
\* not JSON; what json.loads raises and requests does not wrap for the
\* others, RecursionError for nesting beyond the recursion limit and
\* ValueError for an integer beyond the digit limit.
JsonRaises(body) ==
    CASE body.kind = "json" -> "none"
      [] body.kind = "deep" -> "RecursionError"
      [] body.kind = "bigint" -> "ValueError"
      [] OTHER -> "JSONDecodeError"

\* requests.exceptions.JSONDecodeError is a RequestException (requests
\* 2.27 and later): the method's except clause catches it.
JsonError(reqs) == Return(Failure(str("JSONDecodeError")), reqs)

\* except requests.exceptions.RequestException as e: return the failure.
ExceptRequestException(e, reqs) == Return(Failure(str(e)), reqs)

\* A return that turns a 4xx or 5xx response into a failure.
ReturnResponseChecksStatus(net, reqs) ==
    IF net.status_code >= 400
    THEN Return(Failure(str("HTTPError")), reqs)
    ELSE IF JsonRaises(net.body) = "none"
         THEN Return(Success(net.status_code, net.body.payload), reqs)
         ELSE IF JsonRaises(net.body) = "JSONDecodeError"
              THEN JsonError(reqs)
              ELSE Raise(JsonRaises(net.body), reqs)

\* The return statement after a response arrived, for the methods that
\* call response.json() unconditionally: the success dict, the failure
\* dict for a JSONDecodeError, and for an exception of response.json()
\* that is no RequestException that exception, which leaves the method.
ReturnResponse(net, reqs) ==
    IF JsonRaises(net.body) = "none"
    THEN Return(Success(net.status_code, net.body.payload), reqs)
    ELSE IF JsonRaises(net.body) = "JSONDecodeError"
         THEN JsonError(reqs)
         ELSE Raise(JsonRaises(net.body), reqs)

\* The payload test_health reports for an empty body.
HealthMessage ==
    JObj([message |-> JStr(<<"S", "e", "r", "v", "e", "r", " ", "i", "s", " ",
                             "r", "u", "n", "n", "i", "n", "g">>)])

\* A test_health without the except clause.
test_health_uncaught(self, net) ==
    LET req == [verb |-> "GET", url |-> <<self.base_url, "/">>, timeout |-> 5]
    IN  IF net.kind = "error" THEN Raise(net.exc, <<req>>)
        ELSE IF net.body.kind = "empty"
             THEN Return(Success(net.status_code, HealthMessage), <<req>>)
             ELSE ReturnResponse(net, <<req>>)

\* test_health: GET base_url/ ; an empty body gives the placeholder message.
test_health(self, net) ==
    LET req == [verb |-> "GET", url |-> <<self.base_url, "/">>, timeout |-> 5]
    IN  IF net.kind = "error" THEN ExceptRequestException(net.exc, <<req>>)
        ELSE IF net.body.kind = "empty"
             THEN Return(Success(net.status_code, HealthMessage), <<req>>)
             ELSE ReturnResponse(net, <<req>>)

\* The body shared by the file-based methods, which differ in the endpoint,
\* the multipart field, the content type, the form data and the timeout:
\* the existence check (line 58), open() (line 62), one POST, the result.
\* open() raises an OSError, which the except clause does not name.
PostFile(self, req, file_path, fstat, fopen, net) ==
    IF ~exists(fstat)
    THEN Return(Failure(<<"File not found: ", file_path>>), << >>)
    ELSE IF OpenError(fopen) # "none"
         THEN Raise(OpenError(fopen), << >>)
         ELSE IF net.kind = "error"
              THEN ExceptRequestException(net.exc, <<req>>)
              ELSE ReturnResponse(net, <<req>>)

FileRequest(self, endpoint, field, file_path, content_type, data, timeout) ==
    [verb |-> "POST", url |-> <<self.base_url, endpoint>>, field |-> field,
     filename |-> basename(file_path), content_type |-> content_type,
     data |-> data, timeout |-> timeout]

parse_document(self, file_path, fstat, fopen, net) ==
    PostFile(self,
             FileRequest(self, "/parse_document", "file", file_path,
                         "application/pdf", "none", 300),
             file_path, fstat, fopen, net)

_parse_file_endpoint(self, endpoint, file_path, fstat, fopen, net) ==
    PostFile(self,
             FileRequest(self, endpoint, "file", file_path, "none", "none", 300),
             file_path, fstat, fopen, net)

parse_document_pdf(self, file_path, fstat, fopen, net) ==
    _parse_file_endpoint(self, "/parse_document/pdf", file_path, fstat, fopen, net)

parse_document_ppt(self, file_path, fstat, fopen, net) ==
    _parse_file_endpoint(self, "/parse_document/ppt", file_path, fstat, fopen, net)

parse_document_docs(self, file_path, fstat, fopen, net) ==
    _parse_file_endpoint(self, "/parse_document/docs", file_path, fstat, fopen, net)

parse_image(self, file_path, fstat, fopen, net) ==
    PostFile(self,
             FileRequest(self, "/parse_image/image", "file", file_path,
                         "none", "none", 300),
             file_path, fstat, fopen, net)

process_image(self, file_path, task, fstat, fopen, net) ==
    PostFile(self,
             FileRequest(self, "/parse_image/process_image", "image", file_path,
                         "none", task, 300),
             file_path, fstat, fopen, net)

parse_media_audio(self, file_path, fstat, fopen, net) ==
    PostFile(self,
             FileRequest(self, "/parse_media/audio", "file", file_path,
                         "none", "none", 600),
             file_path, fstat, fopen, net)

\* parse_media_video without its os.path.exists check: open() raises.
parse_media_video_unchecked(self, file_path, fstat, fopen, net) ==
    LET req == FileRequest(self, "/parse_media/video", "file", file_path,
                           "none", "none", 600)
    IN  IF OpenError(fopen) # "none"
        THEN Raise(OpenError(fopen), << >>)
        ELSE IF net.kind = "error"
             THEN ExceptRequestException(net.exc, <<req>>)
             ELSE ReturnResponse(net, <<req>>)

parse_media_video(self, file_path, fstat, fopen, net) ==
    PostFile(self,
             FileRequest(self, "/parse_media/video", "file", file_path,
                         "none", "none", 600),
             file_path, fstat, fopen, net)

parse_website(self, url, net) ==
    LET req == [verb |-> "POST", url |-> <<self.base_url, "/parse_website/parse">>,
                params |-> url, accept |-> "application/json", timeout |-> 60]
    IN  IF net.kind = "error" THEN ExceptRequestException(net.exc, <<req>>)
        ELSE ReturnResponse(net, <<req>>)

\* What print_response did: the sections it printed, in order, and the
\* exception that ended it ("none" if it returned).  The script writes to
\* a stdout that takes every line: what ends print_response is the data.
Printed(lines, exc) == [lines |-> lines, exc |-> exc]

\* The interpreters that run the script.  They differ in one thing the
\* script can reach: a slice object is unhashable up to Python 3.11 and
\* hashable from Python 3.12 on.
Pythons == {"3.11", "3.12"}

\* What text[:max_text_length] raises for a dict: the slice is the key, and
\* hashing it raises TypeError up to Python 3.11; from 3.12 on it is
\* hashed, looked up and not found, which raises KeyError.
SliceOfDict(python) == IF python = "3.11" THEN "TypeError" ELSE "KeyError"

\* The [TEXT] section (lines 261-266), for a text that is truthy.  The
\* heading needs len(text): TypeError for a number or a bool, nothing
\* printed.  A text longer than max_text_length is cut and "..." appended,
\* after the heading: for a list the cut works and list + str raises
\* TypeError; for a dict the cut itself raises.
TextSection(d, python) ==
    IF "text" \notin DOMAIN d \/ ~JTruthy(d["text"]) THEN Printed(<< >>, "none")
    ELSE IF ~HasLen(d["text"]) THEN Printed(<< >>, "TypeError")
    ELSE IF JLen(d["text"]) > MaxTextLength /\ d["text"].t = "list"
         THEN Printed(<<"[TEXT]">>, "TypeError")
    ELSE IF JLen(d["text"]) > MaxTextLength /\ d["text"].t = "object"
         THEN Printed(<<"[TEXT]">>, SliceOfDict(python))
         ELSE Printed(<<"[TEXT]">>, "none")

\* if "metadata" in data
MetadataSection(d) ==
    IF "metadata" \in DOMAIN d THEN <<"[METADATA]">> ELSE << >>

\* What the line of one entry of images raises (line 277): .get raises
\* AttributeError for an entry that is no dict, len() raises TypeError for
\* an 'image' that has no length.
ImageLine(img) ==
    IF img.t # "object" THEN "AttributeError"
    ELSE IF "image" \in DOMAIN img.dict /\ ~HasLen(img.dict["image"]) THEN "TypeError"
    ELSE "none"

\* The images section (lines 274-277).  The heading needs len(images):
\* TypeError for None, a number or a bool, nothing printed.  The loop runs
\* over the entries of a list (the characters of a str, the keys of a dict,
\* which have no .get) and stops at the first line that raises.
ImagesSection(images) ==
    IF ~HasLen(images) THEN Printed(<< >>, "TypeError")
    ELSE IF images.t # "list"
         THEN Printed(<<"[IMAGES]">>,
                      IF JLen(images) > 0 THEN "AttributeError" ELSE "none")
         ELSE LET bad == {i \in 1..Len(images.list) : ImageLine(images.list[i]) # "none"}
              IN  IF bad = {} THEN Printed(<<"[IMAGES]">>, "none")
                  ELSE Printed(<<"[IMAGES]">>,
                               ImageLine(images.list[CHOOSE i \in bad :
                                                        \A j \in bad : i <= j]))

\* print_response: a failure prints one [ERROR] line; a success prints the
\* status and the sections of its data, and stops at the first section that
\* raises.  data.get raises AttributeError for data that is no dict.
print_response(response, python) ==
    IF ~response.success THEN Printed(<<"[ERROR]">>, "none")
    ELSE IF response.data.t # "object"
         THEN Printed(<<"[INFO] Status">>, "AttributeError")
         ELSE LET d == response.data.dict
                  text == TextSection(d, python)
                  head == <<"[INFO] Status">> \o text.lines
                  imgs == IF "images" \in DOMAIN d THEN ImagesSection(d["images"])
                          ELSE Printed(<< >>, "none")
              IN  IF text.exc # "none" THEN Printed(head, text.exc)
                  ELSE IF imgs.exc # "none"
                  THEN Printed(head \o MetadataSection(d) \o imgs.lines, imgs.exc)
                  ELSE Printed(head \o MetadataSection(d) \o imgs.lines
                                  \o <<"[FULL JSON]">>, "none")

(***************************************************************************)
(* Part 3.  src/tutorial_poc.py : run_tests and main                       *)
(***************************************************************************)

TestTypes == {"all", "health", "document", "image", "media", "website"}

\* The test types for which run_tests returns right after the health check.
HealthOnly == {"all", "health"}

\* What the file system answers create_sample_files: the directory is made
\* and the file written; os.makedirs raises (the path is a file, its parent
\* is not writable); or open(text_file, "w") raises.
SampleOutcomes == {"ok", "FileExistsError", "PermissionError"}

\* create_sample_files(output_dir): the dict it returns and the files it
\* wrote, or the exception it raises.
create_sample_files(output_dir, samples) ==
    IF samples = "ok"
    THEN [raised |-> FALSE, exc |-> "none",
          value |-> [txt |-> <<output_dir, "/", "sample_document.txt">>],
          written |-> << <<output_dir, "/", "sample_document.txt">> >>]
    ELSE [raised |-> TRUE, exc |-> samples, value |-> EmptyDict, written |-> << >>]

\* The state of a running run_tests call: the results dict, the phases run
\* in order, the requests sent, the number of time.sleep(1) calls, whether
\* the summary was printed, the sections print_response printed, the files
\* written, and the exception leaving the function, if any.
\* Test 1, always run: the health check, its result printed.
HealthPhase(client, netHealth, python) ==
    LET h == test_health(client, netHealth)
        p == print_response(h.value, python)
    IN  IF h.raised
        THEN [raised |-> TRUE, exc |-> h.exc, results |-> EmptyDict,
              phases |-> <<"health">>, requests |-> h.requests, sleeps |-> 0,
              summary |-> FALSE, stdout |-> << >>, written |-> << >>]
        ELSE [raised |-> p.exc # "none", exc |-> p.exc,
              results |-> Put(EmptyDict, "health", h.value.success),
              phases |-> <<"health">>, requests |-> h.requests,
              sleeps |-> IF p.exc # "none" THEN 0 ELSE 1,
              summary |-> FALSE, stdout |-> p.lines, written |-> << >>]

\* Test 2 writes the sample file first, then records a placeholder False
\* and sleeps.
DocumentPhase(r, test_type, samples) ==
    IF r.raised \/ test_type \notin {"all", "document"} THEN r
    ELSE LET c == create_sample_files("/tmp/omniparse_test", samples)
         IN  IF c.raised
             THEN [r EXCEPT !.raised = TRUE, !.exc = c.exc,
                            !.phases = Append(@, "document")]
             ELSE [r EXCEPT !.results = Put(@, "parse_document", FALSE),
                            !.phases = Append(@, "document"),
                            !.written = @ \o c.written,
                            !.sleeps = @ + 1]

\* Tests 3 and 4 record a placeholder False and sleep.
PlaceholderPhase(r, test_type, category, key) ==
    IF r.raised \/ test_type \notin {"all", category} THEN r
    ELSE [r EXCEPT !.results = Put(@, key, FALSE),
                   !.phases = Append(@, category),
                   !.sleeps = @ + 1]

\* Test 5 calls parse_website("https://example.com") and prints its result.
WebsitePhase(r, client, test_type, netWeb, python) ==
    IF r.raised \/ test_type \notin {"all", "website"} THEN r
    ELSE LET w == parse_website(client, <<"https://example.com">>, netWeb)
             p == print_response(w.value, python)
         IN  IF w.raised
             THEN [r EXCEPT !.raised = TRUE, !.exc = w.exc,
                            !.phases = Append(@, "website"),
                            !.requests = @ \o w.requests]
             ELSE [r EXCEPT !.raised = p.exc # "none", !.exc = p.exc,
                            !.results = Put(@, "parse_website", w.value.success),
                            !.phases = Append(@, "website"),
                            !.requests = @ \o w.requests,
                            !.stdout = @ \o p.lines]

\* The summary is printed by every return but the early one.
Summary(r) == IF r.raised THEN r ELSE [r EXCEPT !.summary = TRUE]

run_tests(client, test_type, netHealth, samples, netWeb, python) ==
    LET r1 == HealthPhase(client, netHealth, python)
    IN  IF r1.raised \/ test_type \in HealthOnly
        THEN r1
        ELSE Summary(
               WebsitePhase(
                 PlaceholderPhase(
                   PlaceholderPhase(
                     DocumentPhase(r1, test_type, samples),
                     test_type, "image", "parse_image"),
                   test_type, "media", "parse_media"),
                 client, test_type, netWeb, python))

\* The characters of the paths and URLs tried are the ASCII characters and
\* these characters outside ASCII, each written by its code point:
\* "U+00C9" (E with acute), "U+00E9" (e with acute), "U+0130" (capital I
\* with dot above), "U+212A" (the Kelvin sign), and "U+0307" (the
\* combining dot above), which lowering produces.
\*
\* The cased characters among them whose lower-case form is one character
\* and, at the same index, that form: A-Z, E with acute, and the Kelvin
\* sign, which lowers to the ASCII k.
UpperCase ==
    <<"A", "B", "C", "D", "E", "F", "G", "H", "I", "J", "K", "L", "M",
      "N", "O", "P", "Q", "R", "S", "T", "U", "V", "W", "X", "Y", "Z",
      "U+00C9", "U+212A">>

LowerCase ==
    <<"a", "b", "c", "d", "e", "f", "g", "h", "i", "j", "k", "l", "m",
      "n", "o", "p", "q", "r", "s", "t", "u", "v", "w", "x", "y", "z",
      "U+00E9", "k">>

\* str.lower() of one character, as a string: Unicode's lower-case
\* mapping.  Capital I with dot above lowers to two characters, i and the
\* combining dot above; every other upper-case character lowers to one;
\* a character that is not upper-case is kept.
lowerChar(c) ==
    IF c = "U+0130" THEN <<"i", "U+0307">>
    ELSE IF \E i \in 1..Len(UpperCase) : UpperCase[i] = c
    THEN <<LowerCase[CHOOSE i \in 1..Len(UpperCase) : UpperCase[i] = c]>>
    ELSE <<c>>

\* str.lower(): the lower-case forms of the characters, in order.
RECURSIVE lower(_)
lower(s) == IF s = << >> THEN << >> ELSE lowerChar(Head(s)) \o lower(Tail(s))

\* os.path.splitext(p): the extension starts at the last dot after the last
\* "/", unless only dots precede it in the file name.
splitext(p) ==
    LET sepIndex == rfind(p, "/")
        dotIndex == rfind(p, ".")
    IN  IF /\ dotIndex > sepIndex
           /\ \E i \in (sepIndex + 1)..(dotIndex - 1) : p[i] # "."
        THEN <<SubSeq(p, 1, dotIndex - 1), SubSeq(p, dotIndex, Len(p))>>
        ELSE <<p, << >> >>

\* The extension tuples of main's dispatch.
DocumentExts ==
    {<<".", "p", "d", "f">>,
     <<".", "p", "p", "t">>,
     <<".", "d", "o", "c">>,
     <<".", "p", "p", "t", "x">>,
     <<".", "d", "o", "c", "x">>}

ImageExts ==
    {<<".", "j", "p", "g">>,
     <<".", "j", "p", "e", "g">>,
     <<".", "p", "n", "g">>,
     <<".", "b", "m", "p">>,
     <<".", "g", "i", "f">>,
     <<".", "t", "i", "f", "f">>}

AudioExts ==
    {<<".", "m", "p", "3">>,
     <<".", "w", "a", "v">>,
     <<".", "a", "a", "c">>}

VideoExts ==
    {<<".", "m", "p", "4">>,
     <<".", "m", "k", "v">>,
     <<".", "a", "v", "i">>,
     <<".", "m", "o", "v">>}

\* The truth value of an option of the command line (`if args.file:`,
\* `elif args.url:`): false for an option that is absent (None) and for
\* one given with the empty string.
Truthy(x) == x # None /\ x # << >>

\* What main did: how it ended ("returned", "exit" by sys.exit, "raised"),
\* its exit status, the client calls it made in order, the requests sent,
\* and what it printed.
MainEnd(outcome, status, exc, calls, requests, stdout) ==
    [outcome |-> outcome, status |-> status, exc |-> exc, calls |-> calls,
     requests |-> requests, stdout |-> stdout]

\* if args.output == "json": print(json.dumps(result)) else: print_response
PrintResult(args, r, calls, python) ==
    IF r.raised
    THEN MainEnd("raised", 1, r.exc, calls, r.requests, << >>)
    ELSE IF args.output = "json"
         THEN MainEnd("returned", 0, "none", calls, r.requests, <<"json.dumps">>)
         ELSE LET p == print_response(r.value, python)
              IN  IF p.exc # "none"
                  THEN MainEnd("raised", 1, p.exc, calls, r.requests, p.lines)
                  ELSE MainEnd("returned", 0, "none", calls, r.requests, p.lines)

\* The --file branch: dispatch on the lower-cased extension.
FileBranch(client, args, fstat, fopen, net, python) ==
    LET ext == lower(splitext(args.file)[2])
    IN  IF ext \in DocumentExts
        THEN PrintResult(args, parse_document(client, args.file, fstat, fopen, net),
                         <<[method |-> "parse_document", file_path |-> args.file]>>,
                         python)
        ELSE IF ext \in ImageExts
        THEN PrintResult(args, process_image(client, args.file, args.task, fstat, fopen, net),
                         <<[method |-> "process_image", file_path |-> args.file,
                            task |-> args.task]>>,
                         python)
        ELSE IF ext \in AudioExts
        THEN PrintResult(args, parse_media_audio(client, args.file, fstat, fopen, net),
                         <<[method |-> "parse_media_audio", file_path |-> args.file]>>,
                         python)
        ELSE IF ext \in VideoExts
        THEN PrintResult(args, parse_media_video(client, args.file, fstat, fopen, net),
                         <<[method |-> "parse_media_video", file_path |-> args.file]>>,
                         python)
        ELSE MainEnd("exit", 1, "none", << >>, << >>, <<"Unsupported file type">>)

\* The else branch: the test suite, which prints the results of its
\* requests itself; the dict it returns is printed only as JSON.
SuiteBranch(client, args, net, samples, net2, python) ==
    LET r == run_tests(client, args.test, net, samples, net2, python)
        calls == <<[method |-> "run_tests", test_type |-> args.test,
                    results |-> r.results, phases |-> r.phases,
                    sleeps |-> r.sleeps, summary |-> r.summary,
                    written |-> r.written]>>
    IN  IF r.raised
        THEN MainEnd("raised", 1, r.exc, calls, r.requests, r.stdout)
        ELSE MainEnd("returned", 0, "none", calls, r.requests,
                     r.stdout \o (IF args.output = "json" THEN <<"json.dumps">>
                                  ELSE << >>))

main(args, fstat, fopen, net, samples, net2, python) ==
    LET client == OmniParseAPIClient(args.host, args.port)
    IN  IF Truthy(args.file)
        THEN FileBranch(client, args, fstat, fopen, net, python)
        ELSE IF Truthy(args.url)
        THEN PrintResult(args, parse_website(client, args.url, net),
                         <<[method |-> "parse_website", url |-> args.url]>>,
                         python)
        ELSE SuiteBranch(client, args, net, samples, net2, python)

(***************************************************************************)
(* Part 4.  Inputs, actions and specifications                             *)
(***************************************************************************)

\* The extensions of the file names tried: those main's dispatch names,
\* upper-case spellings of some of them, spellings with a character
\* outside ASCII (.mkv with the Kelvin sign for k, .gif with the dotted
\* capital I for i, accented letters), extensions it does not name, and no
\* extension at all.
Exts ==
    {<<".", "p", "d", "f">>,
     <<".", "p", "p", "t">>,
     <<".", "d", "o", "c">>,
     <<".", "p", "p", "t", "x">>,
     <<".", "d", "o", "c", "x">>,
     <<".", "j", "p", "g">>,
     <<".", "j", "p", "e", "g">>,
     <<".", "p", "n", "g">>,
     <<".", "b", "m", "p">>,
     <<".", "g", "i", "f">>,
     <<".", "t", "i", "f", "f">>,
     <<".", "m", "p", "3">>,
     <<".", "w", "a", "v">>,
     <<".", "a", "a", "c">>,
     <<".", "m", "p", "4">>,
     <<".", "m", "k", "v">>,
     <<".", "a", "v", "i">>,
     <<".", "m", "o", "v">>,
     <<".", "P", "D", "F">>,
     <<".", "D", "O", "C", "X">>,
     <<".", "J", "p", "g">>,
     <<".", "P", "N", "G">>,
     <<".", "G", "i", "f">>,
     <<".", "T", "I", "F", "F">>,
     <<".", "M", "P", "3">>,
     <<".", "W", "A", "V">>,
     <<".", "M", "o", "V">>,
     <<".", "M", "k", "v">>,
     <<".", "m", "U+212A", "v">>,
     <<".", "m", "U+212A", "V">>,
     <<".", "g", "U+0130", "f">>,
     <<".", "U+00C9">>,
     <<".", "U+00E9">>,
     <<".", "t", "x", "t">>,
     <<".", "h", "e", "i", "c">>,
     <<>>}

\* The paths given to --file, all non-empty: a plain name with each
\* extension; names inside a directory whose own name has a dot; hidden
\* files, whose leading dot starts no extension.
Paths ==
    {<<"a">> \o e : e \in Exts}
    \cup {<<"d", ".", "x", "/", "a">> \o e : e \in {<< >>, <<".", "p", "d", "f">>, <<".", "m", "p", "4">>}}
    \cup {<<".", "p", "d", "f">>, <<"d", "/", ".", "p", "n", "g">>,
          <<"A", ".", "W", "A", "V">>}

\* The paths given to the client methods when called directly.
MethodPaths == {<<"a", ".", "p", "d", "f">>, <<"d", ".", "x", "/", "a">>}

Urls == {<<"https://example.com">>}

Tasks == {"Caption", "OCR"}

\* The namespace argparse returns.  --host and --port keep their defaults.
\* --file and --url have no default: each is None when the option is
\* absent, and the string given otherwise, which may be empty.
\* --test is read by the suite only: with a --file or a --url that is
\* true, its default and one other value are tried.
Args ==
    {a \in [host : {"localhost"}, port : {8000}, test : TestTypes,
            file : Paths \cup {None, << >>}, url : Urls \cup {None, << >>},
            task : Tasks, output : {"summary", "json"}] :
        (Truthy(a.file) \/ Truthy(a.url)) => a.test \in {"all", "website"}}

Client == OmniParseAPIClient("localhost", 8000)

FileMethods ==
    {"parse_document", "parse_document_pdf", "parse_document_ppt",
     "parse_document_docs", "parse_image", "process_image",
     "parse_media_audio", "parse_media_video"}

\* The call of one file-based method by name (task is read by process_image only).
CallFileMethod(m, file_path, task, fstat, fopen, net) ==
    CASE m = "parse_document" -> parse_document(Client, file_path, fstat, fopen, net)
      [] m = "parse_document_pdf" -> parse_document_pdf(Client, file_path, fstat, fopen, net)
      [] m = "parse_document_ppt" -> parse_document_ppt(Client, file_path, fstat, fopen, net)
      [] m = "parse_document_docs" -> parse_document_docs(Client, file_path, fstat, fopen, net)
      [] m = "parse_image" -> parse_image(Client, file_path, fstat, fopen, net)
      [] m = "process_image" -> process_image(Client, file_path, task, fstat, fopen, net)
      [] m = "parse_media_audio" -> parse_media_audio(Client, file_path, fstat, fopen, net)
      [] m = "parse_media_video" -> parse_media_video(Client, file_path, fstat, fopen, net)

\* The client keeps nothing between calls (base_url is set once), so a
\* behaviour of the script is one call from the start.
Idle == last.op = "start"

TestHealth ==
    /\ Idle
    /\ \E net \in Net :
          last' = [op |-> "test_health", net |-> net,
                   ret |-> test_health(Client, net)]
    /\ UNCHANGED loaderVars

\* The answers a call never asks for are fixed: open() is not reached for
\* a path that does not exist, and no request is sent unless the file opens.
OpenLooks(fstat) == IF exists(fstat) THEN FileStatus ELSE {fstat}

FileNets(fstat, fopen) ==
    IF exists(fstat) /\ OpenError(fopen) = "none" THEN Net ELSE {NoNet}

FileMethod ==
    /\ Idle
    /\ \E m \in FileMethods, file_path \in MethodPaths, fstat \in FileStatus :
       \E task \in (IF m = "process_image" THEN Tasks ELSE {"Caption"}),
          fopen \in OpenLooks(fstat) :
       \E net \in FileNets(fstat, fopen) :
          last' = [op |-> m, file_path |-> file_path, task |-> task,
                   fstat |-> fstat, fopen |-> fopen, net |-> net,
                   ret |-> CallFileMethod(m, file_path, task, fstat, fopen, net)]
    /\ UNCHANGED loaderVars

ParseWebsite ==
    /\ Idle
    /\ \E url \in Urls, net \in Net :
          last' = [op |-> "parse_website", url |-> url, net |-> net,
                   ret |-> parse_website(Client, url, net)]
    /\ UNCHANGED loaderVars

\* The answer is a response whose JSON payload has a dict of more than
\* max_text_length keys as its text: print_response slices a dict.
SlicesDict(net) ==
    /\ net.kind = "response"
    /\ net.body.kind = "json"
    /\ net.body.payload.t = "object"
    /\ "text" \in DOMAIN net.body.payload.dict
    /\ net.body.payload.dict["text"].t = "object"
    /\ JLen(net.body.payload.dict["text"]) > MaxTextLength

\* The interpreters differ only where a dict is sliced: for answers that
\* lead to no such slice one interpreter stands for both.
PythonsFor(nets) ==
    IF \E net \in nets : SlicesDict(net) THEN Pythons ELSE {"3.11"}

\* run_tests asks for the sample files and for a second request only in
\* the phases that follow a health phase it did not stop at (which
\* interpreter raises in print_response makes no difference to that).
Continues(test_type, net) ==
    /\ test_type \notin HealthOnly
    /\ ~HealthPhase(Client, net, "3.11").raised

SuiteSamples(test_type, net) ==
    IF Continues(test_type, net) /\ test_type = "document"
    THEN SampleOutcomes ELSE {"ok"}

SuiteNets(test_type, net) ==
    IF Continues(test_type, net) /\ test_type = "website" THEN Net ELSE {NoNet}

RunTests ==
    /\ Idle
    /\ \E test_type \in TestTypes, net \in Net :
       \E samples \in SuiteSamples(test_type, net),
          net2 \in SuiteNets(test_type, net) :
       \E python \in PythonsFor({net, net2}) :
          last' = [op |-> "run_tests", test_type |-> test_type,
                   net |-> net, samples |-> samples, net2 |-> net2,
                   python |-> python,
                   ret |-> run_tests(Client, test_type, net, samples, net2, python)]
    /\ UNCHANGED loaderVars

\* main looks at a file only with a --file that is true and runs the suite
\* only with neither a --file nor a --url that is true.
Main ==
    /\ Idle
    /\ \E args \in Args :
       \E fstat \in (IF Truthy(args.file) THEN FileStatus ELSE {"missing"}) :
       \E fopen \in OpenLooks(fstat) :
       \E net \in (IF Truthy(args.file) THEN FileNets(fstat, fopen) ELSE Net) :
       \E samples \in (IF Truthy(args.file) \/ Truthy(args.url) THEN {"ok"}
                       ELSE SuiteSamples(args.test, net)),
          net2 \in (IF Truthy(args.file) \/ Truthy(args.url) THEN {NoNet}
                    ELSE SuiteNets(args.test, net)) :
       \E python \in PythonsFor({net, net2}) :
          last' = [op |-> "main", args |-> args, fstat |-> fstat,
                   fopen |-> fopen, net |-> net, samples |-> samples,
                   net2 |-> net2, python |-> python,
                   ret |-> main(args, fstat, fopen, net, samples, net2, python)]
    /\ UNCHANGED loaderVars

ClientInit ==
    last = [op |-> "start"]

Init == LoaderInit /\ ClientInit

ClientNext == TestHealth \/ FileMethod \/ ParseWebsite \/ RunTests \/ Main

\* The loader and the test script are separate processes with no shared
\* state; each has its own specification.
\* The loader process (the server's startup and its readers).
LoaderSpec == Init /\ [][LoaderNext]_vars

\* The test script.
ClientSpec == Init /\ [][ClientNext]_vars

(***************************************************************************)
(* Part 5.  The claims                                                     *)
(***************************************************************************)

IsLoad == call.op = "load_omnimodel"

\* The load of statement stmt raised in the last call.
LoadRaised(stmt) == call.out[stmt] \in {"Exception", "BaseException"}

Ran(step) == \E i \in 1..Len(call.steps) : call.steps[i] = step

\* The document load of the last call ran and returned.
DocumentsLoaded == Ran("load_all_models") /\ call.out["load_all_models"] = "ok"

\* The vision try block of the last call ran and one of its two loads
\* raised an exception, of any class.
VisionRaised ==
    /\ DocumentsLoaded
    /\ \/ LoadRaised("vision_model")
       \/ LoadRaised("vision_processor")

\* The speech load of the last call ran and raised.
SpeechRaised == Ran("whisper_model") /\ LoadRaised("whisper_model")

\* C1: when load_documents is true and the vision-model load or the
\* vision-processor load raises any exception, load_omnimodel does not
\* raise because of it, vision_model and vision_processor are both None
\* afterwards (also when the model had loaded and only the processor load
\* failed), and the later load steps still run: the speech model if
\* load_media, and the crawler if load_web (unless the speech load itself
\* raised).
C1_VisionFailureContained ==
    (IsLoad /\ VisionRaised) =>
        /\ call.exc \notin {"vision_model", "vision_processor",
                          "print_warning", "print_disabled"}
        /\ shared_state.vision_model = None
        /\ shared_state.vision_processor = None
        /\ call.load_media => Ran("whisper_model")
        /\ (call.load_web /\ ~SpeechRaised) => Ran("crawler")
        /\ ~SpeechRaised => call.exc \in {NoExc, "crawler"}

\* C2: load_omnimodel(False, False, False) changes no field of the holder,
\* whatever its state, and runs no load; on a fresh holder all five fields
\* are None afterwards.
C2_AllFlagsFalse ==
    (IsLoad /\ ~call.load_documents /\ ~call.load_media /\ ~call.load_web) =>
        /\ shared_state = call.before
        /\ call.steps = << >>
        /\ call.before = SharedState => \A fld \in Fields : shared_state[fld] = None

\* A call with all flags false on a holder that an earlier call populated.
C2_Witness ==
    /\ IsLoad /\ ~call.load_documents /\ ~call.load_media /\ ~call.load_web
    /\ call.before.model_list # None
    /\ call.before.crawler # None
    /\ shared_state.crawler # None

\* C3: load_omnimodel(True, False, False) on a fresh holder, the document
\* load succeeding, sets model_list and both vision fields, a vision field
\* being None only if a vision load raised; whisper_model and crawler stay
\* None.
C3_DocumentsOnly ==
    (/\ IsLoad /\ call.before = SharedState
     /\ call.load_documents /\ ~call.load_media /\ ~call.load_web
     /\ DocumentsLoaded) =>
        /\ shared_state.model_list = Obj("model_list", call.n)
        /\ shared_state.whisper_model = None
        /\ shared_state.crawler = None
        /\ ~VisionRaised =>
              /\ shared_state.vision_model = Obj("vision_model", call.n)
              /\ shared_state.vision_processor = Obj("vision_processor", call.n)

\* What a documents branch that was left without an exception put in the
\* three fields it writes.
AfterDocuments(fld) ==
    IF ~call.load_documents THEN call.before[fld]
    ELSE IF fld = "model_list" THEN Obj("model_list", call.n)
    ELSE IF call.handled THEN None
    ELSE Obj(fld, call.n)

\* C4: a failure of the document load or of the speech load, of any class,
\* leaves load_omnimodel as that exception.  After a document-load failure
\* no vision, speech or crawler load runs and the holder is as before the
\* call; after a speech-load failure the crawler load does not run, and the
\* fields written by the documents branch of the same call keep the values
\* it gave them.
C4_FatalLoadFailures ==
    IsLoad =>
        /\ (Ran("load_all_models") /\ LoadRaised("load_all_models")) =>
              /\ call.exc = "load_all_models"
              /\ call.exc_class = call.out["load_all_models"]
              /\ call.steps = <<"load_all_models">>
              /\ shared_state = call.before
        /\ SpeechRaised =>
              /\ call.exc = "whisper_model"
              /\ call.exc_class = call.out["whisper_model"]
              /\ call.steps[Len(call.steps)] = "whisper_model"
              /\ ~Ran("crawler")
              /\ shared_state.whisper_model = call.before.whisper_model
              /\ shared_state.crawler = call.before.crawler
              /\ \A fld \in {"model_list", "vision_model", "vision_processor"} :
                    shared_state[fld] = AfterDocuments(fld)

\* The second call loads the documents and the vision model, then its
\* speech load raises while load_web is set: the crawler of the first call
\* stays, the document fields are those of the second call.
C4_Witness ==
    /\ IsLoad /\ call.n = 2
    /\ call.load_documents /\ call.load_media /\ call.load_web
    /\ SpeechRaised /\ ~VisionRaised
    /\ call.exc = "whisper_model"
    /\ shared_state.model_list = Obj("model_list", 2)
    /\ shared_state.vision_processor = Obj("vision_processor", 2)
    /\ shared_state.crawler = Obj("crawler", 1)

IsFileMethod == last.op \in FileMethods

IsEndpointMethod == last.op \in FileMethods \cup {"test_health", "parse_website"}

\* C5: every file-based client method called with a path that does not
\* exist returns {success: False, error: "File not found: <path>"} and
\* sends no HTTP request.
C5_FileNotFound ==
    (IsFileMethod /\ last.fstat = "missing") =>
        /\ ~last.ret.raised
        /\ last.ret.value = [success |-> FALSE,
                             error |-> <<"File not found: ", last.file_path>>]
        /\ last.ret.requests = << >>

\* A per-format document method on a missing path.
C5_Witness ==
    /\ last.op = "parse_document_ppt"
    /\ last.fstat = "missing"
    /\ last.file_path = <<"d", ".", "x", "/", "a">>
    /\ ~last.ret.raised
    /\ ~last.ret.value.success
    /\ last.ret.requests = << >>

\* C6: when the request fails in the network layer (the server is
\* unreachable), test_health, parse_website and every file-based method on
\* an existing file return {success: False, error: str(e)} and do not raise.
C6_Unreachable ==
    (/\ IsEndpointMethod
     /\ IsFileMethod => (last.fstat = "file" /\ last.fopen = "file")
     /\ last.net.kind = "error") =>
        /\ ~last.ret.raised
        /\ DOMAIN last.ret.value = {"success", "error"}
        /\ last.ret.value.success = FALSE
        /\ last.ret.value.error = str(last.net.exc)

\* An audio upload of an existing file whose request could not connect.
C6_Witness ==
    /\ last.op = "parse_media_audio"
    /\ last.fstat = "file" /\ last.fopen = "file"
    /\ last.net.kind = "error" /\ last.net.exc = "ConnectionError"
    /\ Len(last.ret.requests) = 1
    /\ ~last.ret.raised
    /\ ~last.ret.value.success

\* C7: for every file-based client method, a path that exists but cannot
\* be opened (a directory, an unreadable file) yields a {success: False,
\* error} result and no exception.
C7_FileErrorsRecovered ==
    (/\ IsFileMethod
     /\ exists(last.fstat)
     /\ last.fopen \in {"directory", "unreadable"}) =>
        /\ ~last.ret.raised
        /\ last.ret.value.success = FALSE
        /\ "error" \in DOMAIN last.ret.value

\* C8: run_tests runs the health check first; with test type "all" it goes
\* on to the document, image, media and website phases in that order and
\* its results have the keys health, parse_document, parse_image,
\* parse_media and parse_website; with a single category the results have
\* health and that category only.
C8_RunTestsSequence ==
    (last.op = "run_tests" /\ ~last.ret.raised) =>
        /\ last.ret.phases[1] = "health"
        /\ last.test_type = "all" =>
              /\ last.ret.phases = <<"health", "document", "image", "media", "website">>
              /\ DOMAIN last.ret.results =
                    {"health", "parse_document", "parse_image", "parse_media",
                     "parse_website"}
        /\ last.test_type = "health" => DOMAIN last.ret.results = {"health"}
        /\ last.test_type = "document" =>
              DOMAIN last.ret.results = {"health", "parse_document"}
        /\ last.test_type = "image" =>
              DOMAIN last.ret.results = {"health", "parse_image"}
        /\ last.test_type = "media" =>
              DOMAIN last.ret.results = {"health", "parse_media"}
        /\ last.test_type = "website" =>
              DOMAIN last.ret.results = {"health", "parse_website"}

\* The extension lists of claim C9, as the claim gives them.
C9_Document ==
    {<<".", "p", "d", "f">>,
     <<".", "p", "p", "t">>,
     <<".", "d", "o", "c">>,
     <<".", "p", "p", "t", "x">>,
     <<".", "d", "o", "c", "x">>}

C9_Image ==
    {<<".", "j", "p", "g">>,
     <<".", "j", "p", "e", "g">>,
     <<".", "p", "n", "g">>,
     <<".", "b", "m", "p">>,
     <<".", "g", "i", "f">>,
     <<".", "t", "i", "f", "f">>}

C9_Audio ==
    {<<".", "m", "p", "3">>,
     <<".", "w", "a", "v">>,
     <<".", "a", "a", "c">>}

C9_Video ==
    {<<".", "m", "p", "4">>,
     <<".", "m", "k", "v">>,
     <<".", "a", "v", "i">>,
     <<".", "m", "o", "v">>}

\* An option of the command line is given: argparse stored a string.
Given(x) == x # None

\* The lower-cased extension of the --file value of the last main call.
C9_Ext == lower(splitext(last.args.file)[2])

\* C9: main routes exactly one way.  When --file is given (also when
\* --url is given too) it dispatches on the lower-cased extension: the
\* document extensions to parse_document, the image extensions to
\* process_image with --task, the audio extensions to parse_media_audio,
\* the video extensions to parse_media_video, and any other extension
\* prints 'Unsupported file type' and exits with status 1 without a client
\* call; otherwise when --url is given it calls parse_website; otherwise
\* it calls run_tests with --test.
C9_Routing ==
    last.op = "main" =>
        LET a == last.args
            r == last.ret
        IN  /\ (Given(a.file) /\ C9_Ext \in C9_Document) =>
                  r.calls = <<[method |-> "parse_document", file_path |-> a.file]>>
            /\ (Given(a.file) /\ C9_Ext \in C9_Image) =>
                  r.calls = <<[method |-> "process_image", file_path |-> a.file,
                               task |-> a.task]>>
            /\ (Given(a.file) /\ C9_Ext \in C9_Audio) =>
                  r.calls = <<[method |-> "parse_media_audio", file_path |-> a.file]>>
            /\ (Given(a.file) /\ C9_Ext \in C9_Video) =>
                  r.calls = <<[method |-> "parse_media_video", file_path |-> a.file]>>
            /\ (/\ Given(a.file)
                /\ C9_Ext \notin C9_Document \cup C9_Image \cup C9_Audio \cup C9_Video) =>
                  /\ r.calls = << >>
                  /\ r.requests = << >>
                  /\ r.outcome = "exit" /\ r.status = 1
                  /\ r.stdout = <<"Unsupported file type">>
            /\ (~Given(a.file) /\ Given(a.url)) =>
                  r.calls = <<[method |-> "parse_website", url |-> a.url]>>
            /\ (~Given(a.file) /\ ~Given(a.url)) =>
                  /\ Len(r.calls) = 1
                  /\ r.calls[1].method = "run_tests"
                  /\ r.calls[1].test_type = a.test

\* An endpoint method was called and its request was answered.
GotResponse ==
    /\ IsEndpointMethod
    /\ IsFileMethod => (exists(last.fstat) /\ last.fopen = "file")
    /\ last.net.kind = "response"

\* A result with success False has an error and no status_code.
FailureShape ==
    (IsEndpointMethod /\ ~last.ret.raised /\ ~last.ret.value.success) =>
        DOMAIN last.ret.value = {"success", "error"}

\* C10 as stated: whenever a client endpoint method receives an HTTP
\* response it returns success True with the response's status_code and
\* its JSON payload as data, whatever the status code; results with
\* success False carry an error and no status_code.
C10_Original ==
    /\ GotResponse =>
          /\ ~last.ret.raised
          /\ last.ret.value.success = TRUE
          /\ last.ret.value.status_code = last.net.status_code
          /\ last.net.body.kind = "json" =>
                last.ret.value.data = last.net.body.payload
    /\ FailureShape

\* C10 amended: whenever a client endpoint method receives an HTTP
\* response whose body parses as JSON, it returns exactly success True,
\* the response's status_code and the parsed payload as data, whatever the
\* status code; test_health does the same, with a placeholder payload, for
\* an empty body; for a body that is not JSON (for every method but
\* test_health also an empty body) the method returns success False;
\* results with success False carry an error and no status_code.
C10_JsonResponse ==
    /\ (GotResponse /\ last.net.body.kind = "json") =>
          /\ ~last.ret.raised
          /\ last.ret.value = [success |-> TRUE,
                               status_code |-> last.net.status_code,
                               data |-> last.net.body.payload]
    /\ (GotResponse /\ last.op = "test_health" /\ last.net.body.kind = "empty") =>
          /\ ~last.ret.raised
          /\ last.ret.value = [success |-> TRUE,
                               status_code |-> last.net.status_code,
                               data |-> HealthMessage]
    /\ (/\ GotResponse
        /\ \/ last.net.body.kind = "invalid"
           \/ last.net.body.kind = "empty" /\ last.op # "test_health") =>
          /\ ~last.ret.raised
          /\ ~last.ret.value.success
    /\ FailureShape

\* parse_website answered by a 500 response with a JSON body.
C10_Witness ==
    /\ last.op = "parse_website"
    /\ last.net.kind = "response"
    /\ last.net.status_code = 500
    /\ last.net.body.kind = "json"
    /\ ~last.ret.raised
    /\ last.ret.value.success
    /\ last.ret.value.status_code = 500

IsAccessor == call.op \in {"get_shared_state", "get_active_models"}

\* C11: between calls, after any sequence of load_omnimodel calls (any
\* flags, any outcomes of the loads) and accessor calls, vision_model and
\* vision_processor are both set or both None; get_shared_state and
\* get_active_models return the holder and change none of its fields.
C11_VisionFieldsAgree ==
    /\ (shared_state.vision_model = None) <=> (shared_state.vision_processor = None)
    /\ IsAccessor =>
          /\ ~call.ret.raised
          /\ call.ret.value = shared_state
          /\ shared_state = call.before

====
